---------------------------- MODULE Spec2Model ----------------------------
(***************************************************************************)
(* Model of src/Native/Bootstrap/main.cpp: the module registry (section    *)
(* bookends / RegisterReadyToRunModule), the bootstrap sequence of main,   *)
(* the fault boundary around __managed__Main, the raw object layout        *)
(* accessors, PrintStringObject and the diagnostic fallback stubs.         *)
(*                                                                         *)
(* Two specifications share the variables:                                 *)
(*   Spec        one process run of a non-CPPCODEGEN build: program load   *)
(*               (module registration), main, process end;                 *)
(*   SpecNative  the native helpers of the file called one at a time on a  *)
(*               heap laid out by the code generator, for both pointer     *)
(*               sizes and both settings of CPPCODEGEN.                    *)
(***************************************************************************)
EXTENDS Integers, Sequences, FiniteSets, TLC

\* ------------------------------------------------------------------ bounds
MaxUnits == 2    \* contributing units linked into the program
MaxLen   == 2    \* UTF-16 code units in a managed string
MaxRet   == 1    \* managed exit codes range over -MaxRet..MaxRet
MaxArgs  == 2    \* argc ranges over 1..MaxArgs
MaxWalks == 2    \* PrintStringObject calls made in one SpecNative run
MaxFrames == 2   \* reverse-P/Invoke calls active at once
MaxLoads == 2    \* __load_string_literal calls made in one SpecLiteral run

\* --------------------------------------------------------------- constants
NULL == 0                    \* nullptr, the placeholder held by each bookend
SizeofInt32 == 4             \* sizeof(int32_t)
SizeofUint16 == 2            \* sizeof(uint16_t)

Platforms == {"windows", "linux", "apple"}   \* _MSC_VER/_WIN32, neither, __APPLE__
PtrSizes  == {4, 8}                          \* sizeof(void*) == sizeof(intptr_t)
Units     == 1..MaxUnits                     \* module descriptors (non-null addresses)
RetVals   == (0 - MaxRet)..MaxRet
CodeUnits == {97, 98, 9731}                  \* 'a', 'b', U+2603 (needs both bytes)
CChars    == {97, 128, 233}                  \* bytes of a narrow string: 'a', 0x80, 0xE9

VARIABLES
    platform,           \* build: which registration strategy is compiled in
    ptrSize,            \* build: sizeof(void*)
    cppcodegen,         \* build: CPPCODEGEN defined
    mem,                \* heap bytes; address a is mem[a + 1]
    objs,               \* addresses of the two string/array objects on the heap
    pc,                 \* position of the process
    argc, argv,         \* what the platform passes to main
    modules,            \* the merged .modules section: bookend, pointers, bookend
    registeredModules,  \* NoStl::vector<void*> __registeredModules
    contributed,        \* descriptors of the units linked so far, in link order
    delivered,          \* (array, count) handed to InitializeModules
    calls,              \* calls made by main so far, in order, with their result
    managed,            \* what the managed entry point did
    managedArgs,        \* (argc, argv) received by __managed__Main
    retval,             \* main's local retval
    caught,             \* times main's catch clause ran
    strWalks,           \* PrintStringObject invocations
    stdout,             \* output written: printf texts and putwchar units
    result,             \* how the process ended
    lastCall,           \* SpecNative: the helper called last and what it did
    coffModule,         \* what main handed to RhpRegisterCoffModule
    charSigned,         \* build: plain char is a signed type
    literal,            \* the char arrays given to __load_string_literal, in order
    revStack,           \* frames of the reverse-P/Invoke calls now active
    entered,            \* frames the runtime holds as entered
    lastExit            \* the reverse-P/Invoke call left last, and how

vars == <<platform, ptrSize, cppcodegen, mem, objs, pc, argc, argv, modules,
          registeredModules, contributed, delivered, calls, managed,
          managedArgs, retval, caught, strWalks, stdout, result, lastCall,
          coffModule, charSigned, literal, revStack, entered, lastExit>>

\* ------------------------------------------------------------ heap layout
\* Bytes of n, least significant first, k of them (0 <= n < 2^31).
LE(n, k) == [i \in 1..k |-> (n \div (256 ^ (i - 1))) % 256]

RECURSIVE UnitBytes(_)
UnitBytes(units) ==
    IF units = <<>> THEN <<>>
    ELSE LE(Head(units), SizeofUint16) \o UnitBytes(Tail(units))

\* A string object as the code generator lays it out: type-descriptor word,
\* 32-bit length, then the UTF-16 code units.
StringObjectBytes(sz, units) ==
    [i \in 1..sz |-> 170] \o LE(Len(units), SizeofInt32) \o UnitBytes(units)

\* Room kept for every object: two pointer words and MaxLen + 1 code units,
\* rounded up so that every object starts on an 8-byte boundary.
ObjectRoom == 8 * ((2 * 8 + SizeofUint16 * (MaxLen + 1) + 7) \div 8)

Pad(bytes, n) == bytes \o [i \in 1..(n - Len(bytes)) |-> 238]

\* The heap: 8 unused bytes, then the two objects, each in its own room.
HeapOf(sz, s1, s2) ==
    [i \in 1..8 |-> 238] \o Pad(StringObjectBytes(sz, s1), ObjectRoom)
                         \o Pad(StringObjectBytes(sz, s2), ObjectRoom)

\* The two objects: where each lies and the code units it was laid out with.
HeapObjects(s1, s2) == <<[addr |-> 8, units |-> s1],
                         [addr |-> 8 + ObjectRoom, units |-> s2]>>

Strings == UNION {[1..n -> CodeUnits] : n \in 0..MaxLen}

\* ---------------------------------------------------------- memory reads
Byte(m, a) == m[a + 1]

\* *(int32_t*)a
ReadInt32(m, a) ==
    LET hi == Byte(m, a + 3)
    IN  Byte(m, a) + 256 * Byte(m, a + 1) + 65536 * Byte(m, a + 2)
        + 16777216 * (IF hi >= 128 THEN hi - 256 ELSE hi)

\* *(uint16_t*)a
ReadUint16(m, a) == Byte(m, a) + 256 * Byte(m, a + 1)


\* ------------------------------------------------- raw object layout access
\* p + n for a pointer p to elements of the given size.
PtrAdd(p, n, size) == p + n * size

\* Array::GetArrayLength: *(int32_t *)((void **)this + 1)
GetArrayLength(m, this, sz) == ReadInt32(m, PtrAdd(this, 1, sz))

\* Array::GetArrayData: (void **)this + 2
DataAtLengthField(this, sz) == PtrAdd(this, 1, sz)
GetArrayData(this, sz) == PtrAdd(this, 2, sz)

\* The loop of PrintStringObject: one entry per iteration, the address it
\* dereferences and the unit it hands to putwchar.
RECURSIVE PrintStringLoop(_, _, _, _)
RECURSIVE LoopOneTooFar(_, _, _, _)
LoopOneTooFar(m, pString, index, length) ==
    IF index <= length
    THEN <<[addr |-> pString, ch |-> ReadUint16(m, pString)]>>
         \o LoopOneTooFar(m, PtrAdd(pString, 1, SizeofUint16), index + 1, length)
    ELSE <<>>
PrintStringLoop(m, pString, index, length) ==
    IF index < length
    THEN <<[addr |-> pString, ch |-> ReadUint16(m, pString)]>>
         \o PrintStringLoop(m, PtrAdd(pString, 1, SizeofUint16), index + 1, length)
    ELSE <<>>

\* PrintStringObject: length at sizeof(intptr_t), units from
\* sizeof(intptr_t) + sizeof(int32_t).
PrintStringObject(m, pStringToPrint, sz) ==
    PrintStringLoop(m, pStringToPrint + sz + SizeofInt32, 0,
                    ReadInt32(m, pStringToPrint + sz))

\* Output records.
Printf(text)     == [fn |-> "printf", text |-> text, arg |-> "", ch |-> 0]
PrintfS(fmt, e)  == [fn |-> "printf", text |-> fmt, arg |-> e, ch |-> 0]
Putwchar(ch)     == [fn |-> "putwchar", text |-> "", arg |-> "", ch |-> ch]
Putwchars(w)  == [i \in 1..Len(w) |-> Putwchar(w[i].ch)]

\* What __not_yet_implemented writes before exit(-1).
ReasonBeforeMethod(m, pMethodName, pMessage, sz) ==
    <<Printf("ILCompiler failed generating code for this method; execution cannot continue.\n"),
      Printf("This is likely because of a feature that is not yet implemented in the compiler.\n"),
      Printf("Method: ")>>
    \o Putwchars(PrintStringObject(m, pMessage, sz))
    \o <<Printf("\n\n"), Printf("Reason: ")>>
    \o Putwchars(PrintStringObject(m, pMethodName, sz))
    \o <<Printf("\n")>>
not_yet_implemented(m, pMethodName, pMessage, sz) ==
    <<Printf("ILCompiler failed generating code for this method; execution cannot continue.\n"),
      Printf("This is likely because of a feature that is not yet implemented in the compiler.\n"),
      Printf("Method: ")>>
    \o Putwchars(PrintStringObject(m, pMethodName, sz))
    \o <<Printf("\n\n"), Printf("Reason: ")>>
    \o Putwchars(PrintStringObject(m, pMessage, sz))
    \o <<Printf("\n")>>

\* --------------------------------------------- diagnostic fallback stubs
\* What a call does to its caller: throw a const char*, or return.
Throw(e) == [raised |-> TRUE, msg |-> e]
Return   == [raised |-> FALSE, msg |-> ""]

RhGetCurrentThreadStackTrace == Throw("RhGetCurrentThreadStackTrace")
RhpUniversalTransition       == Throw("RhpUniversalTransition")
RhpEtwExceptionThrown        == Throw("RhpEtwExceptionThrown")
fail_fast_todo               == Return
__fail_fast                  == Throw("__fail_fast")
RhpThrowEx                   == Throw("RhpThrowEx")
RhpThrowHwEx                 == Throw("RhpThrowHwEx")
RhpCallCatchFunclet          == Throw("RhpCallCatchFunclet")
RhpCallFilterFunclet         == Throw("RhpCallFilterFunclet")
RhpCallFinallyFunclet        == Throw("RhpCallFinallyFunclet")
__range_check_fail           == Throw("ThrowRangeOverflowException")

\* The stubs compiled in every build, and those only under CPPCODEGEN.
CommonStubs == {"RhGetCurrentThreadStackTrace", "RhpUniversalTransition",
                "RhpEtwExceptionThrown", "__fail_fast"}
CppCodegenStubs == {"RhpThrowEx", "RhpThrowHwEx", "RhpCallCatchFunclet",
                    "RhpCallFilterFunclet", "RhpCallFinallyFunclet",
                    "__range_check_fail"}
StubsOf(cpp) == IF cpp THEN CommonStubs \cup CppCodegenStubs ELSE CommonStubs

CallStub(s) ==
    CASE s = "RhGetCurrentThreadStackTrace" -> RhGetCurrentThreadStackTrace
      [] s = "RhpUniversalTransition"       -> RhpUniversalTransition
      [] s = "RhpEtwExceptionThrown"        -> RhpEtwExceptionThrown
      [] s = "__fail_fast"                  -> __fail_fast
      [] s = "RhpThrowEx"                   -> RhpThrowEx
      [] s = "RhpThrowHwEx"                 -> RhpThrowHwEx
      [] s = "RhpCallCatchFunclet"          -> RhpCallCatchFunclet
      [] s = "RhpCallFilterFunclet"         -> RhpCallFilterFunclet
      [] s = "RhpCallFinallyFunclet"        -> RhpCallFinallyFunclet
      [] s = "__range_check_fail"           -> __range_check_fail

\* ------------------------------------------------------ module registry
\* The linker folds .modules$A, every unit's .modules$I and .modules$Z in
\* alphabetical order: a unit's pointer lands before the trailing bookend.
MergeSection(section, pModule) ==
    SubSeq(section, 1, Len(section) - 1) \o <<pModule>> \o <<NULL>>

\* Positions of the bookend symbols in the merged section, in void* units.
modules_a(section) == 1
modules_z(section) == Len(section)

\* (int)(__modules_z - __modules_a)
CountIncludingTrailer(a, z) == z - a + 1
ModulesCount(a, z) == z - a

\* NoStl::vector<void*>::push_back
push_back(v, x) == Append(v, x)

\* What InitializeModules can read through (modules, count).
Entries(section, base, count) == [i \in 1..count |-> section[base + i - 1]]

\* The (array, count) pair main passes, by build.
DeliveredPair(plat, section, registered) ==
    IF plat = "apple"
    THEN [called |-> TRUE, modules |-> Entries(registered, 1, Len(registered)),
          count |-> Len(registered)]
    ELSE LET n == ModulesCount(modules_a(section), modules_z(section))
         IN  [called |-> TRUE,
              modules |-> Entries(section, modules_a(section), n), count |-> n]

\* --------------------------------------------------------- managed code
\* What code reached from main may do: return, call a stub of this file,
\* or reach __not_yet_implemented.
ManagedOutcomes ==
    {[kind |-> "return", value |-> r, stub |-> ""] : r \in RetVals}
    \cup {[kind |-> "stub", value |-> 0, stub |-> s] : s \in CommonStubs}
    \cup {[kind |-> "nyi", value |-> 0, stub |-> ""]}

InitializerOutcomes == {o \in ManagedOutcomes : o.value = 0}

NoOutcome == [kind |-> "none", value |-> 0, stub |-> ""]

\* How the managed code ends as seen by its native caller.
RunManaged(o, m, strs, sz) ==
    CASE o.kind = "return" ->
           [end |-> "return", value |-> o.value, msg |-> "", out |-> <<>>, walks |-> 0]
      [] o.kind = "stub" ->
           LET r == CallStub(o.stub)
           IN  IF r.raised
               THEN [end |-> "throw", value |-> 0, msg |-> r.msg, out |-> <<>>, walks |-> 0]
               ELSE [end |-> "return", value |-> o.value, msg |-> "", out |-> <<>>,
                     walks |-> 0]
      [] o.kind = "nyi" ->
           [end |-> "exit", value |-> 0 - 1, msg |-> "",
            out |-> not_yet_implemented(m, strs[1].addr, strs[2].addr, sz), walks |-> 2]

\* main's try { retval = __managed__Main(argc, argv); } catch (const char* &e)
CatchKeepsRetval(r) ==
    IF r.end = "throw"
    THEN [retval |-> r.value, caught |-> 1,
          out |-> <<Printf("Call to an unimplemented runtime method; execution cannot continue.\n"),
                    PrintfS("Method: %s\n", r.msg)>>]
    ELSE [retval |-> r.value, caught |-> 0, out |-> <<>>]
CatchSilent(r) ==
    IF r.end = "throw"
    THEN [retval |-> 0 - 1, caught |-> 1, out |-> <<>>]
    ELSE [retval |-> r.value, caught |-> 0, out |-> <<>>]
TryIgnoresResult(r) ==
    IF r.end = "throw"
    THEN [retval |-> 0 - 1, caught |-> 1,
          out |-> <<Printf("Call to an unimplemented runtime method; execution cannot continue.\n"),
                    PrintfS("Method: %s\n", r.msg)>>]
    ELSE [retval |-> 0, caught |-> 0, out |-> <<>>]
TryManagedMain(r) ==
    IF r.end = "throw"
    THEN [retval |-> 0 - 1, caught |-> 1,
          out |-> <<Printf("Call to an unimplemented runtime method; execution cannot continue.\n"),
                    PrintfS("Method: %s\n", r.msg)>>]
    ELSE [retval |-> r.value, caught |-> 0, out |-> <<>>]

\* ============================================================ process run
MethodNames == {<<97>>, <<97, 98>>}
Reasons     == {<<>>, <<9731>>}

NoCall       == [fn |-> "", obj |-> 0, raised |-> FALSE, msg |-> "", ret |-> 0,
                 reads |-> <<>>, emitted |-> <<>>]
NotDelivered == [called |-> FALSE, modules |-> <<>>, count |-> 0]
NotRegistered == [called |-> FALSE, table |-> <<>>, count |-> 0]
NoExit       == [frame |-> 0, how |-> "none", wasEntered |-> FALSE]
Running      == [how |-> "running", code |-> 0]

Init ==
    /\ platform \in Platforms
    /\ ptrSize \in PtrSizes
    /\ cppcodegen = FALSE
    /\ \E s1 \in MethodNames, s2 \in Reasons :
          /\ mem = HeapOf(ptrSize, s1, s2)
          /\ objs = HeapObjects(s1, s2)
    /\ pc = "static_init"
    /\ argc \in 1..MaxArgs
    /\ argv = [i \in 1..argc |-> 100 + i]
    /\ modules = IF platform = "apple" THEN <<>> ELSE <<NULL, NULL>>
    /\ registeredModules = <<>>
    /\ contributed = <<>>
    /\ delivered = NotDelivered
    /\ calls = <<>>
    /\ managed = NoOutcome
    /\ managedArgs = <<>>
    /\ retval = 0
    /\ caught = 0
    /\ strWalks = 0
    /\ stdout = <<>>
    /\ result = Running
    /\ lastCall = NoCall
    /\ coffModule = NotRegistered
    /\ charSigned = TRUE
    /\ literal = <<>>
    /\ revStack = <<>>
    /\ entered = {}
    /\ lastExit = NoExit

\* What the steps of main and the read-only helpers leave alone.
build   == <<platform, ptrSize, cppcodegen, mem, objs, argc, argv,
             charSigned, literal, revStack, entered, lastExit>>
Called(fn, ok) == calls' = Append(calls, [fn |-> fn, ok |-> ok])
Range(f) == {f[i] : i \in DOMAIN f}

\* main returns code: the process ends with it.
MainReturns(code) ==
    /\ pc' = "done"
    /\ result' = [how |-> "returned", code |-> code]

\* A unit's .modules$I pointer is merged between the bookends at link time.
LinkModuleSection(pModule) ==
    /\ pc = "static_init"
    /\ platform # "apple"
    /\ pModule \notin Range(contributed)
    /\ modules' = MergeSection(modules, pModule)
    /\ contributed' = Append(contributed, pModule)
    /\ UNCHANGED <<build, pc, registeredModules, delivered, calls, managed,
                   managedArgs, retval, caught, strWalks, stdout, result, lastCall,
                   coffModule>>

\* A unit's jump stub runs during static initialization.
RegisterOnlyFirst(pModule) ==
    /\ pc = "static_init"
    /\ platform = "apple"
    /\ pModule \notin Range(contributed)
    /\ registeredModules' = IF registeredModules = <<>>
                            THEN push_back(registeredModules, pModule)
                            ELSE registeredModules
    /\ contributed' = Append(contributed, pModule)
    /\ UNCHANGED <<build, pc, modules, delivered, calls, managed,
                   managedArgs, retval, caught, strWalks, stdout, result, lastCall,
                   coffModule>>
RegisterReadyToRunModule(pModule) ==
    /\ pc = "static_init"
    /\ platform = "apple"
    /\ pModule \notin Range(contributed)
    /\ registeredModules' = push_back(registeredModules, pModule)
    /\ contributed' = Append(contributed, pModule)
    /\ UNCHANGED <<build, pc, modules, delivered, calls, managed,
                   managedArgs, retval, caught, strWalks, stdout, result, lastCall,
                   coffModule>>

untouchedByInit == <<build, modules, registeredModules, contributed, delivered,
                     managed, managedArgs, retval, caught, strWalks, stdout, lastCall>>

\* static const pfn c_classlibFunctions[]: the callbacks in table order; an
\* unset slot holds nullptr.
ClasslibFunctionsSwapped == <<"FailFast", "GetRuntimeException", "nullptr", "nullptr">>
c_classlibFunctions == <<"GetRuntimeException", "FailFast", "nullptr", "nullptr">>

\* _countof(array)
countof(array) == Len(array)

\* main enters __initialize_runtime: if (!PalInit()) return -1;
PalInitRetried(ok) ==
    /\ pc = "static_init"
    /\ Called("PalInit", ok)
    /\ pc' = IF ok THEN "RtuDllMain" ELSE pc
    /\ UNCHANGED <<untouchedByInit, coffModule, result>>
PalInit(ok) ==
    /\ pc = "static_init"
    /\ Called("PalInit", ok)
    /\ IF ok THEN pc' = "RtuDllMain" /\ UNCHANGED result
             ELSE MainReturns(0 - 1)
    /\ UNCHANGED <<untouchedByInit, coffModule>>

\* if (!RtuDllMain(NULL, DLL_PROCESS_ATTACH, NULL)) return -1;
RtuDllMain(ok) ==
    /\ pc = "RtuDllMain"
    /\ Called("RtuDllMain", ok)
    /\ IF ok THEN pc' = "RhpEnableConservativeStackReporting" /\ UNCHANGED result
             ELSE MainReturns(0 - 1)
    /\ UNCHANGED <<untouchedByInit, coffModule>>

\* Which call follows a successful __initialize_runtime, by build.
SkipCoffModule(plat) == "InitializeModules"
AfterInitializeRuntime(plat) ==
    IF plat = "windows" THEN "RhpRegisterCoffModule" ELSE "InitializeModules"

\* if (!RhpEnableConservativeStackReporting()) return -1; return 0;
EnableUnchecked(r) ==
    /\ pc = "RhpEnableConservativeStackReporting"
    /\ Called("RhpEnableConservativeStackReporting", r # 0)
    /\ pc' = AfterInitializeRuntime(platform) /\ UNCHANGED result
    /\ UNCHANGED <<untouchedByInit, coffModule>>
RhpEnableConservativeStackReporting(r) ==
    /\ pc = "RhpEnableConservativeStackReporting"
    /\ Called("RhpEnableConservativeStackReporting", r # 0)
    /\ IF r # 0 THEN pc' = AfterInitializeRuntime(platform) /\ UNCHANGED result
                ELSE MainReturns(0 - 1)
    /\ UNCHANGED <<untouchedByInit, coffModule>>

\* _WIN32 only: if (!RhpRegisterCoffModule(GetModuleHandleW(NULL), range,
\* (void **)&c_classlibFunctions, _countof(c_classlibFunctions))) return -1;
RhpRegisterCoffModule(ok) ==
    /\ pc = "RhpRegisterCoffModule"
    /\ Called("RhpRegisterCoffModule", ok)
    /\ coffModule' = [called |-> TRUE, table |-> c_classlibFunctions,
                      count |-> countof(c_classlibFunctions)]
    /\ IF ok THEN pc' = "InitializeModules" /\ UNCHANGED result
             ELSE MainReturns(0 - 1)
    /\ UNCHANGED untouchedByInit

\* InitializeModules(array, count): runs the modules' eager initializers.
\* It is called outside main's try block: a const char* thrown under it
\* leaves main uncaught, and the process is terminated.
InitializeModules(o) ==
    /\ pc = "InitializeModules"
    /\ Called("InitializeModules", TRUE)
    /\ delivered' = DeliveredPair(platform, modules, registeredModules)
    /\ LET r == RunManaged(o, mem, objs, ptrSize)
       IN  /\ stdout' = stdout \o r.out
           /\ strWalks' = strWalks + r.walks
           /\ managed' = IF r.end = "return" THEN managed ELSE o
           /\ CASE r.end = "return" -> pc' = "__managed__Main" /\ UNCHANGED result
                [] r.end = "throw"  -> /\ pc' = "done"
                                       /\ result' = [how |-> "terminate", code |-> 0]
                [] r.end = "exit"   -> /\ pc' = "done"
                                       /\ result' = [how |-> "exit", code |-> r.value]
    /\ UNCHANGED <<build, modules, registeredModules, contributed, managedArgs,
                   retval, caught, lastCall, coffModule>>

\* The arguments of __managed__Main(argc, argv).
ArgsWithoutProgramName(c, v) == <<c - 1, Tail(v)>>
ForwardedArgs(c, v) == <<c, v>>

\* try { retval = __managed__Main(argc, argv); } catch (const char* &e) {...}
ManagedMain(o) ==
    /\ pc = "__managed__Main"
    /\ Called("__managed__Main", TRUE)
    /\ managedArgs' = ForwardedArgs(argc, argv)
    /\ managed' = o
    /\ LET r == RunManaged(o, mem, objs, ptrSize)
       IN  IF r.end = "exit"
           THEN /\ stdout' = stdout \o r.out
                /\ strWalks' = strWalks + r.walks
                /\ pc' = "done"
                /\ result' = [how |-> "exit", code |-> r.value]
                /\ UNCHANGED <<retval, caught>>
           ELSE LET t == TryManagedMain(r)
                IN  /\ stdout' = stdout \o t.out
                    /\ retval' = t.retval
                    /\ caught' = caught + t.caught
                    /\ pc' = "__shutdown_runtime"
                    /\ UNCHANGED <<strWalks, result>>
    /\ UNCHANGED <<build, modules, registeredModules, contributed, delivered, lastCall,
                   coffModule>>

\* __shutdown_runtime(); return retval;
ShutdownSkipped ==
    /\ pc = "__shutdown_runtime"
    /\ MainReturns(retval)
    /\ UNCHANGED <<build, modules, registeredModules, contributed, delivered, calls,
                   managed, managedArgs, retval, caught, strWalks, stdout, lastCall,
                   coffModule>>
ShutdownRuntime ==
    /\ pc = "__shutdown_runtime"
    /\ Called("__shutdown_runtime", TRUE)
    /\ MainReturns(retval)
    /\ UNCHANGED <<build, modules, registeredModules, contributed, delivered,
                   managed, managedArgs, retval, caught, strWalks, stdout, lastCall,
                   coffModule>>

Next ==
    \/ \E u \in Units : LinkModuleSection(u)
    \/ \E u \in Units : RegisterReadyToRunModule(u)
    \/ \E ok \in BOOLEAN : PalInit(ok)
    \/ \E ok \in BOOLEAN : RtuDllMain(ok)
    \/ \E r \in {0, 1} : RhpEnableConservativeStackReporting(r)
    \/ \E ok \in BOOLEAN : RhpRegisterCoffModule(ok)
    \/ \E o \in InitializerOutcomes : InitializeModules(o)
    \/ \E o \in ManagedOutcomes : ManagedMain(o)
    \/ ShutdownRuntime

Spec == Init /\ [][Next]_vars

\* ========================================================= native helpers
\* The helpers of the file called one at a time by generated code.
InitNative ==
    /\ platform = "linux"
    /\ ptrSize \in PtrSizes
    /\ cppcodegen \in BOOLEAN
    /\ \E s1 \in Strings, s2 \in Reasons :
          /\ mem = HeapOf(ptrSize, s1, s2)
          /\ objs = HeapObjects(s1, s2)
    /\ pc = "native"
    /\ argc = 1
    /\ argv = <<101>>
    /\ modules = <<NULL, NULL>>
    /\ registeredModules = <<>>
    /\ contributed = <<>>
    /\ delivered = NotDelivered
    /\ calls = <<>>
    /\ managed = NoOutcome
    /\ managedArgs = <<>>
    /\ retval = 0
    /\ caught = 0
    /\ strWalks = 0
    /\ stdout = <<>>
    /\ result = Running
    /\ lastCall = NoCall
    /\ coffModule = NotRegistered
    /\ charSigned = TRUE
    /\ literal = <<>>
    /\ revStack = <<>>
    /\ entered = {}
    /\ lastExit = NoExit

process == <<pc, modules, registeredModules, contributed, delivered, calls,
             managed, managedArgs, retval, caught, result, coffModule>>

\* Generated code calls one of the stubs compiled into this build.
InvokeStub(s) ==
    /\ pc = "native"
    /\ s \in StubsOf(cppcodegen)
    /\ LET r == CallStub(s)
       IN  lastCall' = [NoCall EXCEPT !.fn = s, !.raised = r.raised, !.msg = r.msg]
    /\ UNCHANGED <<build, process, strWalks, stdout>>

\* PrintStringObject(p) on the i-th heap object.
CallPrintStringObject(i) ==
    /\ pc = "native"
    /\ strWalks < MaxWalks
    /\ LET w == PrintStringObject(mem, objs[i].addr, ptrSize)
       IN  /\ stdout' = stdout \o Putwchars(w)
           /\ lastCall' = [NoCall EXCEPT !.fn = "PrintStringObject", !.obj = i,
                                         !.reads = [k \in 1..Len(w) |-> w[k].addr],
                                         !.emitted = [k \in 1..Len(w) |-> w[k].ch]]
    /\ strWalks' = strWalks + 1
    /\ UNCHANGED <<build, process>>

\* ((Array*)p)->GetArrayLength() on the i-th heap object.
CallGetArrayLength(i) ==
    /\ pc = "native"
    /\ lastCall' = [NoCall EXCEPT !.fn = "GetArrayLength", !.obj = i,
                                  !.ret = GetArrayLength(mem, objs[i].addr, ptrSize)]
    /\ UNCHANGED <<build, process, strWalks, stdout>>

\* ((Array*)p)->GetArrayData() on the i-th heap object.
CallGetArrayData(i) ==
    /\ pc = "native"
    /\ lastCall' = [NoCall EXCEPT !.fn = "GetArrayData", !.obj = i,
                                  !.ret = GetArrayData(objs[i].addr, ptrSize)]
    /\ UNCHANGED <<build, process, strWalks, stdout>>

NextNative ==
    \/ \E s \in CommonStubs \cup CppCodegenStubs : InvokeStub(s)
    \/ \E i \in 1..2 : CallPrintStringObject(i)
    \/ \E i \in 1..2 : CallGetArrayLength(i)
    \/ \E i \in 1..2 : CallGetArrayData(i)

SpecNative == InitNative /\ [][NextNative]_vars

\* ====================================================== transition bridge
\* The runtime's side of the bridge: RhpReversePInvoke2 enters the frame,
\* RhpReversePInvokeReturn releases it and restores the prior context.
RhpReversePInvoke2(ent, pRevFrame)      == ent \cup {pRevFrame}
RhpReversePInvokeReturn(ent, pRevFrame) == ent \ {pRevFrame}

\* void __reverse_pinvoke(ReversePInvokeFrame* pRevFrame)
__reverse_pinvoke(ent, pRevFrame) == RhpReversePInvoke2(ent, pRevFrame)

\* void __reverse_pinvoke_return(ReversePInvokeFrame* pRevFrame)
__reverse_pinvoke_return(ent, pRevFrame) == RhpReversePInvokeReturn(ent, pRevFrame)

\* The frame of a call is a local of that call: one stack slot per depth.
FrameOfCall(depth) == depth

InitBridge ==
    /\ platform = "linux"
    /\ ptrSize \in PtrSizes
    /\ cppcodegen \in BOOLEAN
    /\ mem = HeapOf(ptrSize, <<97>>, <<>>)
    /\ objs = HeapObjects(<<97>>, <<>>)
    /\ pc = "native"
    /\ argc = 1
    /\ argv = <<101>>
    /\ modules = <<NULL, NULL>>
    /\ registeredModules = <<>>
    /\ contributed = <<>>
    /\ delivered = NotDelivered
    /\ calls = <<>>
    /\ managed = NoOutcome
    /\ managedArgs = <<>>
    /\ retval = 0
    /\ caught = 0
    /\ strWalks = 0
    /\ stdout = <<>>
    /\ result = Running
    /\ lastCall = NoCall
    /\ coffModule = NotRegistered
    /\ charSigned = TRUE
    /\ literal = <<>>
    /\ revStack = <<>>
    /\ entered = {}
    /\ lastExit = NoExit

machine == <<platform, ptrSize, cppcodegen, mem, objs, argc, argv, charSigned, literal>>

\* A method reached from native code starts: it passes the address of its
\* own frame to __reverse_pinvoke.
EnterReversePInvoke ==
    /\ pc = "native"
    /\ Len(revStack) < MaxFrames
    /\ LET f == FrameOfCall(Len(revStack) + 1)
       IN  /\ entered' = __reverse_pinvoke(entered, f)
           /\ revStack' = Append(revStack, f)
    /\ lastExit' = NoExit
    /\ UNCHANGED <<machine, process, strWalks, stdout, lastCall>>

\* The innermost such method returns: it passes its frame to
\* __reverse_pinvoke_return.
ReturnReversePInvoke ==
    /\ pc = "native"
    /\ revStack # <<>>
    /\ LET f == revStack[Len(revStack)]
       IN  /\ lastExit' = [frame |-> f, how |-> "return", wasEntered |-> f \in entered]
           /\ entered' = __reverse_pinvoke_return(entered, f)
           /\ revStack' = SubSeq(revStack, 1, Len(revStack) - 1)
    /\ UNCHANGED <<machine, process, strWalks, stdout, lastCall>>

\* The body of the innermost such method calls a stub: the thrown
\* const char* unwinds every active call; no handler or destructor of this
\* file lies on the way, so nothing calls __reverse_pinvoke_return.
UnwindReversePInvoke(s) ==
    /\ pc = "native"
    /\ revStack # <<>>
    /\ s \in StubsOf(cppcodegen)
    /\ LET r == CallStub(s)
           f == revStack[Len(revStack)]
       IN  /\ lastCall' = [NoCall EXCEPT !.fn = s, !.raised = r.raised, !.msg = r.msg]
           /\ IF r.raised
              THEN /\ revStack' = <<>>
                   /\ lastExit' = [frame |-> f, how |-> "unwind",
                                   wasEntered |-> f \in entered]
              ELSE UNCHANGED <<revStack, lastExit>>
    /\ UNCHANGED <<machine, process, strWalks, stdout, entered>>

NextBridge ==
    \/ EnterReversePInvoke
    \/ ReturnReversePInvoke
    \/ \E s \in CommonStubs \cup CppCodegenStubs : UnwindReversePInvoke(s)

SpecBridge == InitBridge /\ [][NextBridge]_vars

\* ======================================================== string literals
\* Narrow strings as the C++ compiler stores them: the bytes, then a 0.
CStrings == {str \o <<0>> : str \in UNION {[1..n -> CChars] : n \in 0..MaxLen}}

\* size_t strlen(const char*)
RECURSIVE strlen(_)
strlen(string) == IF Head(string) = 0 THEN 0 ELSE 1 + strlen(Tail(string))

\* (int32_t)len: the low 32 bits, two's complement.
Int32OfSize(n) ==
    LET lo == n % 65536
        hi == (n \div 65536) % 65536
    IN  lo + 65536 * (IF hi >= 32768 THEN hi - 65536 ELSE hi)

\* The value of string[i]: plain char is signed or unsigned by the build.
CharValue(b, signed) == IF signed /\ b >= 128 THEN b - 256 ELSE b

\* Conversion of a char value to uint16_t: modulo 2^16.
ToUint16(v) == (v + 65536) % 65536

\* *(uint16_t*)a = v
WriteUint16(m, a, v) == [m EXCEPT ![a + 1] = v % 256, ![a + 2] = v \div 256]

\* The runtime's array allocator: a fresh object at the end of the heap with
\* its type word, numElements in the length field and zeroed element data.
RhNewArray(m, numElements, sz) ==
    [ptr |-> Len(m),
     mem |-> m \o Pad([i \in 1..sz |-> 170] \o LE(numElements, SizeofInt32)
                      \o [i \in 1..(SizeofUint16 * numElements) |-> 0],
                      ObjectRoom)]

\* for (size_t i = 0; i < len; i++) p[i] = string[i];
RECURSIVE LiteralLoop(_, _, _, _, _, _)
LiteralLoop(m, p, string, i, len, signed) ==
    IF i < len
    THEN LiteralLoop(WriteUint16(m, PtrAdd(p, i, SizeofUint16),
                                 ToUint16(CharValue(string[i + 1], signed))),
                     p, string, i + 1, len, signed)
    ELSE m

\* (uint16_t *)((char*)pString + sizeof(intptr_t) + sizeof(int32_t))
LiteralDataAtTwoWords(pString, sz) == pString + 2 * sz
LiteralData(pString, sz) == pString + sz + SizeofInt32

\* Object * __load_string_literal(const char * string)
__load_string_literal(m, string, sz, signed) ==
    LET len == strlen(string)
        a   == RhNewArray(m, Int32OfSize(len), sz)
    IN  [ptr |-> a.ptr,
         mem |-> LiteralLoop(a.mem, LiteralData(a.ptr, sz), string, 0, len, signed)]

\* A CPPCODEGEN build, before any literal is loaded.
InitLiteral ==
    /\ platform = "linux"
    /\ ptrSize \in PtrSizes
    /\ cppcodegen = TRUE
    /\ charSigned \in BOOLEAN
    /\ mem = HeapOf(ptrSize, <<97>>, <<>>)
    /\ objs = HeapObjects(<<97>>, <<>>)
    /\ pc = "native"
    /\ argc = 1
    /\ argv = <<101>>
    /\ modules = <<NULL, NULL>>
    /\ registeredModules = <<>>
    /\ contributed = <<>>
    /\ delivered = NotDelivered
    /\ calls = <<>>
    /\ managed = NoOutcome
    /\ managedArgs = <<>>
    /\ retval = 0
    /\ caught = 0
    /\ strWalks = 0
    /\ stdout = <<>>
    /\ result = Running
    /\ lastCall = NoCall
    /\ coffModule = NotRegistered
    /\ literal = <<>>
    /\ revStack = <<>>
    /\ entered = {}
    /\ lastExit = NoExit

\* Compiled code loads one literal; the object is kept as the next heap object.
LoadStringLiteral(string) ==
    /\ pc = "native"
    /\ cppcodegen
    /\ Len(literal) < MaxLoads
    /\ LET r == __load_string_literal(mem, string, ptrSize, charSigned)
       IN  /\ mem' = r.mem
           /\ objs' = Append(objs, [addr |-> r.ptr,
                                    units |-> [k \in 1..strlen(string) |->
                                                 ReadUint16(r.mem, LiteralData(r.ptr, ptrSize)
                                                                   + SizeofUint16 * (k - 1))]])
           /\ lastCall' = [NoCall EXCEPT !.fn = "__load_string_literal",
                                         !.obj = Len(objs) + 1, !.ret = r.ptr]
    /\ literal' = Append(literal, string)
    /\ UNCHANGED <<platform, ptrSize, cppcodegen, argc, argv, charSigned,
                   revStack, entered, lastExit, process, strWalks, stdout>>

NextLiteral ==
    \/ \E string \in CStrings : LoadStringLiteral(string)
    \/ \E i \in 3..Len(objs) : CallPrintStringObject(i)

SpecLiteral == InitLiteral /\ [][NextLiteral]_vars

\* ================================================================ claims
CallNames    == [i \in DOMAIN calls |-> calls[i].fn]
WasCalled(f) == \E i \in DOMAIN calls : calls[i].fn = f
BootstrapFailed == \E i \in DOMAIN calls : ~calls[i].ok
Returned(code)  == result = [how |-> "returned", code |-> code]
Occurrences(seq, x) == Cardinality({i \in DOMAIN seq : seq[i] = x})
FaultReport(e) ==
    <<Printf("Call to an unimplemented runtime method; execution cannot continue.\n"),
      PrintfS("Method: %s\n", e)>>

\* C1: if PalInit, RtuDllMain, RhpEnableConservativeStackReporting or (on
\* Windows) RhpRegisterCoffModule reports failure, neither InitializeModules
\* nor __managed__Main is ever invoked and main returns -1.
C1_BootstrapFailureRunsNoManagedCode ==
    BootstrapFailed =>
        /\ ~WasCalled("InitializeModules")
        /\ ~WasCalled("__managed__Main")
        /\ ~delivered.called
        /\ managed = NoOutcome
        /\ pc = "done"
        /\ Returned(0 - 1)

C1_Witness ==
    /\ Len(calls) = 4
    /\ calls[4] = [fn |-> "RhpRegisterCoffModule", ok |-> FALSE]
    /\ pc = "done"

\* C2: whenever __managed__Main is invoked, the calls made before it are
\* PalInit, RtuDllMain, RhpEnableConservativeStackReporting, (Windows only)
\* RhpRegisterCoffModule, InitializeModules, in this order, each once and
\* each returned before the next started.
ExpectedOrder(plat) ==
    <<"PalInit", "RtuDllMain", "RhpEnableConservativeStackReporting">>
    \o (IF plat = "windows" THEN <<"RhpRegisterCoffModule">> ELSE <<>>)
    \o <<"InitializeModules", "__managed__Main">>

C2_FixedBootstrapOrder ==
    WasCalled("__managed__Main") =>
        LET want == ExpectedOrder(platform)
        IN  /\ Len(calls) >= Len(want)
            /\ SubSeq(CallNames, 1, Len(want)) = want
            /\ \A i \in 1..Len(want) : calls[i].ok
            /\ \A f \in Range(want) : Occurrences(CallNames, f) = 1

C2_Witness ==
    /\ platform = "windows"
    /\ WasCalled("__managed__Main")
    /\ Len(calls) = 6

\* C3 as stated: under section-merge and script-merge the pair passed to
\* InitializeModules covers exactly the N unit descriptors strictly between
\* the bookends: count = N and no bookend placeholder is delivered.
SectionBuild == platform \in {"windows", "linux"}

C3_Original ==
    (SectionBuild /\ delivered.called) =>
        /\ delivered.count = Len(contributed)
        /\ delivered.modules = contributed
        /\ NULL \notin Range(delivered.modules)

\* C3 amended: the pair starts at the leading bookend __modules_a: count is
\* N + 1, entry 0 is the leading bookend's null placeholder, the N entries
\* after it are exactly the N unit descriptors, each once, and the trailing
\* bookend's placeholder is not delivered.
C3_LeadingBookendDelivered ==
    (SectionBuild /\ delivered.called) =>
        LET n == Len(contributed)
        IN  /\ delivered.count = n + 1
            /\ Len(delivered.modules) = n + 1
            /\ delivered.modules[1] = NULL
            /\ Occurrences(delivered.modules, NULL) = 1
            /\ \A d \in Range(contributed) : Occurrences(delivered.modules, d) = 1
            /\ Range(delivered.modules) = Range(contributed) \cup {NULL}

C3_Witness ==
    /\ SectionBuild
    /\ delivered.called
    /\ Len(contributed) >= 2

\* C4: under active registration, after N >= 0 calls to
\* RegisterReadyToRunModule before program entry, the list delivered to
\* InitializeModules has count N and holds exactly the N registered
\* descriptors, each once.
C4_ActiveRegistrationDeliversAll ==
    (platform = "apple" /\ delivered.called) =>
        LET n == Len(contributed)
        IN  /\ delivered.count = n
            /\ Len(delivered.modules) = n
            /\ \A d \in Range(contributed) : Occurrences(delivered.modules, d) = 1
            /\ Range(delivered.modules) = Range(contributed)

C4_Witness ==
    /\ platform = "apple"
    /\ delivered.called
    /\ Len(contributed) >= 2

\* C5: when bootstrap succeeds and __managed__Main returns normally with
\* value r, main returns exactly r.
ManagedReturned == WasCalled("__managed__Main") /\ managed.kind = "return"

C5_ExitCodeIsManagedReturn ==
    ManagedReturned =>
        /\ retval = managed.value
        /\ pc \in {"__shutdown_runtime", "done"}
        /\ (pc = "done" => Returned(managed.value))

C5_Witness ==
    /\ ManagedReturned
    /\ managed.value = 1
    /\ pc = "done"

\* C6: every diagnostic fallback stub raises the internal-fault signal (a
\* thrown const char*) on every invocation and never returns normally.
AllStubs == {"RhGetCurrentThreadStackTrace", "RhpUniversalTransition",
             "RhpEtwExceptionThrown", "__fail_fast", "RhpThrowEx", "RhpThrowHwEx",
             "RhpCallCatchFunclet", "RhpCallFilterFunclet",
             "RhpCallFinallyFunclet", "__range_check_fail"}

C6_StubsAlwaysRaise ==
    /\ StubsOf(TRUE) = AllStubs
    /\ lastCall.fn \in AllStubs => (lastCall.raised /\ lastCall.msg # "")

C6_Witness ==
    /\ cppcodegen
    /\ lastCall.fn = "__range_check_fail"
    /\ lastCall.raised

\* C7 as stated: a stub firing in managed code after a successful bootstrap,
\* inside InitializeModules or inside __managed__Main, is caught exactly once
\* by main's fault boundary, reported, and the process ends with -1.
StubFired == managed.kind = "stub"

C7_Original ==
    (StubFired /\ pc = "done") =>
        /\ caught = 1
        /\ stdout = FaultReport(managed.stub)
        /\ Returned(0 - 1)

\* C7 amended: a stub firing inside __managed__Main is caught exactly once
\* by main's fault boundary, reported, and main returns -1 without managed
\* code continuing; a stub firing inside InitializeModules is outside the
\* boundary: main neither catches nor reports it, __managed__Main is never
\* invoked and the uncaught exception terminates the process.
C7_FaultBoundaryCoversManagedMainOnly ==
    StubFired =>
        IF WasCalled("__managed__Main")
        THEN /\ caught = 1
             /\ stdout = FaultReport(managed.stub)
             /\ retval = 0 - 1
             /\ pc \in {"__shutdown_runtime", "done"}
             /\ (pc = "done" => Returned(0 - 1))
        ELSE /\ caught = 0
             /\ stdout = <<>>
             /\ calls[Len(calls)].fn = "InitializeModules"
             /\ pc = "done"
             /\ result.how = "terminate"

C7_Witness ==
    /\ StubFired
    /\ WasCalled("__managed__Main")
    /\ pc = "done"

\* C8 as stated: on the internal-fault signal the fault boundary prints a
\* method name and a reason string, both through PrintStringObject, and the
\* process terminates with a fixed negative code.
C8_Original ==
    (caught > 0 /\ pc = "done") =>
        /\ strWalks = 2
        /\ \E i \in DOMAIN stdout : stdout[i].fn = "putwchar"
        /\ result.how # "running" /\ result.code = 0 - 1

\* C8 amended: on the internal-fault signal the fault boundary prints a
\* fixed line and the line "Method: " with the thrown C string, both
\* through printf; no reason string is printed and PrintStringObject is not
\* called; main then returns the fixed code -1.
C8_FaultBoundaryPrintsCString ==
    caught > 0 =>
        /\ caught = 1
        /\ strWalks = 0
        /\ Len(stdout) = 2
        /\ \A i \in DOMAIN stdout : stdout[i].fn = "printf"
        /\ stdout[1].text =
             "Call to an unimplemented runtime method; execution cannot continue.\n"
        /\ stdout[2].text = "Method: %s\n"
        /\ stdout[2].arg = managed.stub
        /\ (pc = "done" => Returned(0 - 1))

C8_Witness ==
    /\ caught > 0
    /\ managed.stub = "RhpUniversalTransition"
    /\ pc = "done"

\* C9: for a string object with length field L >= 0 followed by L UTF-16
\* code units, PrintStringObject emits exactly those L units in order, one
\* putwchar per unit, and reads no unit at index >= L.
DataStart(o) == o.addr + ptrSize + SizeofInt32

C9_PrintStringObjectEmitsExactlyL ==
    lastCall.fn = "PrintStringObject" =>
        LET o == objs[lastCall.obj]
            L == Len(o.units)
        IN  /\ lastCall.emitted = o.units
            /\ Len(lastCall.reads) = L
            /\ \A k \in 1..L :
                 lastCall.reads[k] = DataStart(o) + SizeofUint16 * (k - 1)
            /\ \A k \in DOMAIN lastCall.reads :
                 lastCall.reads[k] < DataStart(o) + SizeofUint16 * L
            /\ Len(stdout) >= L
            /\ SubSeq(stdout, Len(stdout) - L + 1, Len(stdout))
                 = [k \in 1..L |-> Putwchar(o.units[k])]

C9_Witness ==
    /\ lastCall.fn = "PrintStringObject"
    /\ lastCall.obj = 1
    /\ lastCall.emitted = <<9731, 97>>

\* C10 as stated: on both pointer sizes GetArrayLength returns the 32-bit
\* length field and GetArrayData returns the address immediately following
\* the length field, object address + pointer-size + 4.
C10_Original ==
    /\ lastCall.fn = "GetArrayLength" =>
         lastCall.ret = Len(objs[lastCall.obj].units)
    /\ lastCall.fn = "GetArrayData" =>
         lastCall.ret = objs[lastCall.obj].addr + ptrSize + SizeofInt32

\* C10 amended: on both pointer sizes GetArrayLength returns the 32-bit
\* length field at offset pointer-size; GetArrayData returns object address
\* + 2 * pointer-size: with 4-byte pointers that is the address immediately
\* following the length field (offset 8), with 8-byte pointers it is offset
\* 16, 4 bytes past the end of the length field.
C10_DataAtTwoPointerWords ==
    /\ lastCall.fn = "GetArrayLength" =>
         lastCall.ret = Len(objs[lastCall.obj].units)
    /\ lastCall.fn = "GetArrayData" =>
         LET o == objs[lastCall.obj]
         IN  /\ ptrSize = 4 => lastCall.ret = o.addr + 8
             /\ ptrSize = 4 => lastCall.ret = o.addr + ptrSize + SizeofInt32
             /\ ptrSize = 8 => lastCall.ret = o.addr + 16
             /\ ptrSize = 8 => lastCall.ret = o.addr + ptrSize + SizeofInt32 + 4

C10_Witness ==
    /\ ptrSize = 8
    /\ lastCall.fn = "GetArrayData"
    /\ lastCall.obj = 2

\* C11 as stated: on Windows the callback table main registers through
\* RhpRegisterCoffModule holds, in this order, object-alloc, array-alloc,
\* type-check, store-ref-element, load-ref-element-address, raise-exception,
\* unhandled-handler (unset), append-stack-frame (unset), and the count
\* passed equals the number of entries of the table.
C11_Original ==
    coffModule.called =>
        /\ Len(coffModule.table) = 8
        /\ coffModule.table[1] = "RhNewObject"
        /\ coffModule.table[2] = "RhNewArray"
        /\ coffModule.table[3] \in {"RhTypeCast_IsInstanceOf", "RhTypeCast_CheckCast"}
        /\ coffModule.table[4] = "RhpStelemRef"
        /\ coffModule.table[5] = "RhpLdelemaRef"
        /\ coffModule.table[6] = "RhpThrowEx"
        /\ coffModule.table[7] = "nullptr"
        /\ coffModule.table[8] = "nullptr"
        /\ coffModule.count = Len(coffModule.table)

\* C11 amended: on Windows the callback table main registers through
\* RhpRegisterCoffModule holds four entries in the fixed order
\* GetRuntimeException, FailFast, unhandled-exception handler (unset),
\* append-exception-stack-frame (unset), and the count passed is 4, the
\* number of entries of the table; no other build registers a table.
C11_FourClasslibFunctions ==
    /\ coffModule.called =>
         /\ platform = "windows"
         /\ Len(coffModule.table) = 4
         /\ coffModule.table[1] = "GetRuntimeException"
         /\ coffModule.table[2] = "FailFast"
         /\ coffModule.table[3] = "nullptr"
         /\ coffModule.table[4] = "nullptr"
         /\ coffModule.count = 4
    /\ coffModule.called <=> WasCalled("RhpRegisterCoffModule")

C11_Witness ==
    /\ platform = "windows"
    /\ coffModule.called
    /\ pc = "InitializeModules"

IndexOf(f) == CHOOSE i \in DOMAIN calls : calls[i].fn = f

\* C13: once the bootstrap has completed, main invokes __managed__Main
\* exactly once, with the argument count and the argument vector the
\* platform passed to main; no bootstrap step modifies argc or argv.
C13_ArgsForwardedUnchanged ==
    /\ argc \in 1..MaxArgs
    /\ argv = [i \in 1..argc |-> 100 + i]
    /\ WasCalled("__managed__Main") =>
         /\ Occurrences(CallNames, "__managed__Main") = 1
         /\ managedArgs = <<argc, argv>>
    /\ ~WasCalled("__managed__Main") => managedArgs = <<>>
    /\ (pc = "__shutdown_runtime"
        \/ (pc = "done" /\ result.how = "returned" /\ ~BootstrapFailed))
         => WasCalled("__managed__Main")

C13_Witness ==
    /\ WasCalled("__managed__Main")
    /\ managedArgs = <<2, <<101, 102>>>>
    /\ pc = "done"

\* C14: whenever __managed__Main has been invoked and main returns, by the
\* normal-return path or by the caught-fault path, __shutdown_runtime has
\* run exactly once, after __managed__Main and before the return; it never
\* runs before __managed__Main and never when the bootstrap failed.
C14_ShutdownOnceAfterManagedMain ==
    /\ WasCalled("__shutdown_runtime") =>
         /\ Occurrences(CallNames, "__shutdown_runtime") = 1
         /\ WasCalled("__managed__Main")
         /\ IndexOf("__managed__Main") < IndexOf("__shutdown_runtime")
         /\ IndexOf("__shutdown_runtime") = Len(calls)
         /\ pc = "done" /\ result.how = "returned"
    /\ (WasCalled("__managed__Main") /\ pc = "done" /\ result.how = "returned")
         => WasCalled("__shutdown_runtime")
    /\ BootstrapFailed => ~WasCalled("__shutdown_runtime")

C14_Witness ==
    /\ caught = 1
    /\ pc = "done"
    /\ WasCalled("__shutdown_runtime")

\* C15: each bootstrap step (PalInit, RtuDllMain,
\* RhpEnableConservativeStackReporting, RhpRegisterCoffModule,
\* InitializeModules) is invoked at most once per run, and only if every
\* earlier step was invoked and returned success: after a failing step no
\* later step is called and no step is retried.
BootstrapSteps == {"PalInit", "RtuDllMain", "RhpEnableConservativeStackReporting",
                   "RhpRegisterCoffModule", "InitializeModules"}

C15_StepsGatedAndNeverRetried ==
    /\ \A f \in BootstrapSteps : Occurrences(CallNames, f) <= 1
    /\ \A i \in DOMAIN calls :
         calls[i].fn \in BootstrapSteps =>
            /\ calls[i].fn = ExpectedOrder(platform)[i]
            /\ \A j \in 1..(i - 1) : calls[j].ok
    /\ \A i \in DOMAIN calls : ~calls[i].ok => i = Len(calls)
    /\ platform # "windows" => ~WasCalled("RhpRegisterCoffModule")

C15_Witness ==
    /\ Len(calls) = 2
    /\ calls[2] = [fn |-> "RtuDllMain", ok |-> FALSE]
    /\ pc = "done"

\* C16: when __not_yet_implemented(methodName, reason) is invoked it prints
\* the method name and then the reason, each by the string walk, ends the
\* process with exit code -1 and never returns to its caller: the managed
\* entry point's return value is not used as the exit code.
NotYetImplementedOutput ==
    <<Printf("ILCompiler failed generating code for this method; execution cannot continue.\n"),
      Printf("This is likely because of a feature that is not yet implemented in the compiler.\n"),
      Printf("Method: ")>>
    \o [k \in 1..Len(objs[1].units) |-> Putwchar(objs[1].units[k])]
    \o <<Printf("\n\n"), Printf("Reason: ")>>
    \o [k \in 1..Len(objs[2].units) |-> Putwchar(objs[2].units[k])]
    \o <<Printf("\n")>>

C16_NotYetImplementedExits ==
    managed.kind = "nyi" =>
        /\ stdout = NotYetImplementedOutput
        /\ strWalks = 2
        /\ pc = "done"
        /\ result = [how |-> "exit", code |-> 0 - 1]
        /\ ~WasCalled("__shutdown_runtime")
        /\ caught = 0
        /\ retval = 0

C16_Witness ==
    /\ managed.kind = "nyi"
    /\ WasCalled("__managed__Main")
    /\ objs[1].units = <<97, 98>>
    /\ objs[2].units = <<9731>>

\* The characters of a narrow string: its bytes up to the terminator.
CharsOf(string) == SubSeq(string, 1, strlen(string))
LiteralWalked == lastCall.fn = "PrintStringObject" /\ lastCall.obj > 2
WalkedLiteral == literal[lastCall.obj - 2]

\* C17: for every narrow C string s of length L, walking the object built by
\* __load_string_literal(s) with PrintStringObject reads the L code units
\* from the offset (pointer size + 4) at which they were written and emits
\* exactly the characters of s.
C17_LiteralRoundTrip ==
    LiteralWalked =>
        /\ lastCall.reads = [k \in 1..strlen(WalkedLiteral) |->
                               objs[lastCall.obj].addr + ptrSize + SizeofInt32
                               + SizeofUint16 * (k - 1)]
        /\ lastCall.emitted = CharsOf(WalkedLiteral)

\* What the walk of a loaded literal does emit: as many units as s has
\* characters, read from where they were written; a byte below 128 comes out
\* as itself, a byte from 128 up comes out as itself where plain char is
\* unsigned and sign-extended to 0xFF00 + byte where it is signed.
LiteralUnitsAsStored ==
    LiteralWalked =>
        /\ lastCall.reads = [k \in 1..strlen(WalkedLiteral) |->
                               objs[lastCall.obj].addr + ptrSize + SizeofInt32
                               + SizeofUint16 * (k - 1)]
        /\ Len(lastCall.emitted) = strlen(WalkedLiteral)
        /\ \A k \in 1..strlen(WalkedLiteral) :
             lastCall.emitted[k] =
                IF charSigned /\ WalkedLiteral[k] >= 128
                THEN 65280 + WalkedLiteral[k]
                ELSE WalkedLiteral[k]

SevenBitLiteralWalked ==
    /\ LiteralWalked
    /\ WalkedLiteral = <<97, 97, 0>>
    /\ lastCall.emitted = <<97, 97>>
    /\ ptrSize = 8

=============================================================================
